---------------------------- MODULE Spec2Model ----------------------------
(***************************************************************************)
(* A model of semantic-grep (w2vgrep): the embedding store lookup, the     *)
(* memoized cosine similarity, and the streaming line matcher              *)
(* ProcessLineByLine with its context buffer and output modes.             *)
(*                                                                         *)
(* Text is modelled as sequences of one-character strings, so that         *)
(* tokenization, case folding, substring replacement and key lengths are   *)
(* computed and not assumed.  Scores are fixed-point numbers in units of   *)
(* 1/Scale (the four decimals of the "Similarity: %.4f" output); the       *)
(* vectors of the store are chosen with perfect-square norms so that the   *)
(* square roots and the quotient are exact in that unit.                   *)
(***************************************************************************)
EXTENDS Integers, Sequences, FiniteSets, TLC

VARIABLES
    \* ---- the similarity cache (modules/similarity) ----
    impl,                \* which cache type is in use: "Cache" or "SimilarityCache"
    cache,               \* the cache map: key -> stored score
    calls,               \* log of the MemoizedCalculateSimilarity calls made directly
    aborted,             \* a call has panicked and the process is gone
    \* ---- the arguments of ProcessLineByLine ----
    queries, similarityThreshold, contextBefore, contextAfter,
    ignoreCase, outputOnlyMatching, outputOnlyLines,
    \* ---- the locals of ProcessLineByLine ----
    queryVectors,        \* map: normalized in-model query -> its vector
    queryInModel,        \* map: normalized query -> BOOLEAN
    input,               \* the lines the scanner has returned so far
    eof,                 \* the scanner has returned false
    line, lineNumber, tokens,
    matched, highlightedLine, similarityScore, matchSimilarityScore,
    contextBuffer, contextLineNumbers,
    out,                 \* what has been written to standard output
    pc,                  \* position in ProcessLineByLine
    flags,               \* the values of -A, -B and -C on the command line
    scanErr,             \* scanner.Err()
    stderr,              \* what has been written to standard error
    \* ---- instrumentation ----
    tokenized,           \* line numbers handed to the word segmenter
    trailing,            \* line numbers read by the after-context loop
    printed,             \* tokens printed by the only-matching branch for the current line
    \* ---- LoadVectorModel ----
    filename,            \* the model path given to LoadVectorModel
    file,                \* what the file system holds at that path
    loaded,              \* the outcome of LoadVectorModel, once it has returned
    \* ---- calculateSimilarity8bit ----
    quantized,           \* its two vectors and, once it has run, its three sums
    \* ---- processTokenStream (sgrep) ----
    version,             \* which of the two processTokenStream is running
    query, window, streamThreshold,   \* its arguments
    stdin,               \* the words of standard input
    scanned,             \* how many of them the scanner has returned
    streamEnd,           \* the function has returned
    tokenBuffer, bestChunk, bestSimilarity, tokensProcessed,
    chunks               \* the chunks printed, with their scores

cacheVars == <<impl, cache, calls, aborted>>
argVars   == <<queries, similarityThreshold, contextBefore, contextAfter,
               ignoreCase, outputOnlyMatching, outputOnlyLines>>
queryVars == <<queryVectors, queryInModel>>
lineVars  == <<line, lineNumber, tokens, matched, highlightedLine,
               similarityScore, matchSimilarityScore>>
ctxVars   == <<contextBuffer, contextLineNumbers>>
ghostVars == <<tokenized, trailing, printed>>
callVars  == <<flags, scanErr, stderr>>
scanVars  == <<argVars, queryVars, input, eof, lineVars, ctxVars, out, pc, ghostVars,
               callVars>>
loadVars  == <<filename, file, loaded>>
streamVars == <<version, query, window, streamThreshold, stdin, scanned, streamEnd,
                tokenBuffer, bestChunk, bestSimilarity, tokensProcessed, chunks>>
vars      == <<cacheVars, scanVars, loadVars, quantized, streamVars>>

-----------------------------------------------------------------------------
(* Bounds of the model *)

MaxCalls == 4      \* direct calls to MemoizedCalculateSimilarity in one behaviour
MaxLines == 3      \* lines in the input stream
MaxContext == 2    \* largest contextBefore / contextAfter
MaxRecords == 2    \* records in a model file
MaxLen == 6        \* characters of a line given to the highlighter alone
MaxDim == 300      \* dimension of the vectors given to calculateSimilarity8bit alone
MaxWindow == 10    \* largest window of processTokenStream
MaxStream == 20    \* words on the standard input of processTokenStream

(* Program constants *)

Scale == 10000     \* scores are in units of 1/10000 ("%.4f")
MaxKeyLen == 30    \* SimilarityCache: longer keys are not cached

One == Scale       \* the score 1.0 of an exact match

-----------------------------------------------------------------------------
(* Text *)

Lower(c) == IF c = "K" THEN "k" ELSE IF c = "Q" THEN "q" ELSE c

\* strings.ToLower
ToLower(s) == [i \in 1..Len(s) |-> Lower(s[i])]

IsLetter(c) == c \in {"k", "q", "m", "d", "K", "Q", "x"}

HasPrefix(s, p) == Len(p) <= Len(s) /\ SubSeq(s, 1, Len(p)) = p

\* strings.HasSuffix
HasSuffix(s, p) == Len(p) <= Len(s) /\ SubSeq(s, Len(s) - Len(p) + 1, Len(s)) = p

Drop(s, n) == SubSeq(s, n + 1, Len(s))

\* strings.Replace(s, old, new, -1) for a non-empty old: every non-overlapping
\* occurrence, left to right
RECURSIVE Replace(_, _, _)
Replace(s, old, new) ==
    IF Len(s) < Len(old) THEN s
    ELSE IF HasPrefix(s, old) THEN new \o Replace(Drop(s, Len(old)), old, new)
    ELSE <<Head(s)>> \o Replace(Tail(s), old, new)

\* utils.ColorText(text, "red"): "<" stands for ESC[91m and ">" for ESC[0m
ColorText(text) == <<"<">> \o text \o <<">">>

\* mutant: only the first occurrence is replaced (strings.Replace with n = 1)
ReplaceFirst(s, old, new) ==
    IF \E i \in 1..Len(s) : HasPrefix(Drop(s, i - 1), old)
    THEN LET i == CHOOSE j \in 1..Len(s) :
                      /\ HasPrefix(Drop(s, j - 1), old)
                      /\ \A k \in 1..(j - 1) : ~HasPrefix(Drop(s, k - 1), old)
         IN  SubSeq(s, 1, i - 1) \o new \o Drop(s, i - 1 + Len(old))
    ELSE s

\* mutant: the token is wrapped where it first occurs only
HighlightFirst(l, token) == ReplaceFirst(l, token, ColorText(token))

\* strings.Replace(line, token, utils.ColorText(token, "red"), -1)
Highlight(l, token) == Replace(l, token, ColorText(token))

\* words.NewSegmenter: a maximal run of letters is one token, and so is a
\* maximal run of other characters (white space)
RECURSIVE RunLen(_, _)
RunLen(s, cls) ==
    IF s = <<>> \/ IsLetter(Head(s)) # cls THEN 0 ELSE 1 + RunLen(Tail(s), cls)

RECURSIVE Segment(_)
Segment(s) ==
    IF s = <<>> THEN <<>>
    ELSE LET n == RunLen(s, IsLetter(Head(s)))
         IN  <<SubSeq(s, 1, n)>> \o Segment(Drop(s, n))

-----------------------------------------------------------------------------
(* The embedding store *)

F32(v) == [type |-> "float32", v |-> v]
I8(v)  == [type |-> "int8", v |-> v]

\* VecModel32bit.Vectors of the loaded model: k(ing), q(ueen), m(an) and a long word
LongWord == [i \in 1..16 |-> "x"]
Vectors ==
    (<<"k">> :> F32(<<5, 0>>)) @@ (<<"q">> :> F32(<<4, 3>>)) @@
    (<<"m">> :> F32(<<3, 4>>)) @@ (LongWord :> F32(<<0, 5>>))

\* VecModel8bit.Vectors of a quantized model of the same words
Vectors8bit == [t \in DOMAIN Vectors |-> I8(Vectors[t].v)]

\* mutant: a token that is not in the store gets the vector of the word k
GetEmbeddingDefault(token) ==
    IF token \in DOMAIN Vectors
    THEN [err |-> FALSE, vec |-> Vectors[token]]
    ELSE [err |-> FALSE, vec |-> Vectors[<<"k">>]]

\* VecModel32bit.GetEmbedding
GetEmbedding(token) ==
    IF token \in DOMAIN Vectors
    THEN [err |-> FALSE, vec |-> Vectors[token]]
    ELSE [err |-> TRUE, vec |-> F32(<<>>)]

-----------------------------------------------------------------------------
(* Cosine similarity *)

RECURSIVE SumProd(_, _, _)
SumProd(a, b, i) == IF i = 0 THEN 0 ELSE a[i] * b[i] + SumProd(a, b, i - 1)

Sqrt(n) == CHOOSE r \in 0..n : r * r <= n /\ (r + 1) * (r + 1) > n

\* calculateSimilarity32bit (and calculateSimilarity of the earlier package)
calculateSimilarity32bit(vec1, vec2) ==
    LET dotProduct == SumProd(vec1, vec2, Len(vec1))
        norm1 == SumProd(vec1, vec1, Len(vec1))
        norm2 == SumProd(vec2, vec2, Len(vec1))
    IN  (dotProduct * Scale) \div (Sqrt(norm1) * Sqrt(norm2))

MaxInt32 == 2147483647

\* mutant: the sums are kept in 16 bits
Add16(a, b) ==
    IF a + b > 32767 THEN a + b - 65536
    ELSE IF a + b < -32768 THEN a + b + 65536
    ELSE a + b

\* a + b on int32: the sum wraps around when it leaves [-2^31, 2^31 - 1]
Add32(a, b) ==
    IF b > 0 /\ a > MaxInt32 - b
    THEN (a - MaxInt32 - 1) + (b - MaxInt32 - 1)
    ELSE IF b < 0 /\ a < ((-MaxInt32) - 1) - b
    THEN ((a + MaxInt32) + 1) + ((b + MaxInt32) + 1)
    ELSE a + b

\* the loop of calculateSimilarity8bit after its first i iterations: the three
\* int32 sums; each product of two int8 widened to int32 is at most 2^14
\* one iteration of the loop of calculateSimilarity8bit on the three int32
\* sums; each product of two int8 widened to int32 is at most 2^14
Iterate8bit(acc, vec1, vec2, i) ==
    [dotProduct |-> Add32(acc.dotProduct, vec1[i] * vec2[i]),
     norm1 |-> Add32(acc.norm1, vec1[i] * vec1[i]),
     norm2 |-> Add32(acc.norm2, vec2[i] * vec2[i])]

\* the sums after the first i iterations
RECURSIVE Accumulate8bit(_, _, _)
Accumulate8bit(vec1, vec2, i) ==
    IF i = 0 THEN [dotProduct |-> 0, norm1 |-> 0, norm2 |-> 0]
    ELSE Iterate8bit(Accumulate8bit(vec1, vec2, i - 1), vec1, vec2, i)

\* calculateSimilarity8bit: the sums are converted to float64 for the square
\* roots and the division
calculateSimilarity8bit(vec1, vec2) ==
    LET acc == Accumulate8bit(vec1, vec2, Len(vec1))
    IN  (acc.dotProduct * Scale) \div (Sqrt(acc.norm1) * Sqrt(acc.norm2))

-----------------------------------------------------------------------------
(* Model files: bytes and their encodings *)

EmptyMap == [k \in {} |-> 0]

MapPut(m, k, v) == [x \in DOMAIN m \cup {k} |-> IF x = k THEN v ELSE m[x]]

\* a file is a sequence of bytes 0..255; text is in ASCII
Space   == 32
Newline == 10
Nul     == 0

\* unicode.IsSpace on the bytes of a word
IsSpace(c) == c \in {9, 10, 11, 12, 13, 32}

RECURSIVE TrimLeft(_)
TrimLeft(s) == IF s # <<>> /\ IsSpace(Head(s)) THEN TrimLeft(Tail(s)) ELSE s

RECURSIVE TrimRight(_)
TrimRight(s) ==
    IF s # <<>> /\ IsSpace(s[Len(s)]) THEN TrimRight(SubSeq(s, 1, Len(s) - 1)) ELSE s

\* strings.TrimSpace
TrimSpace(s) == TrimRight(TrimLeft(s))

\* the position of the first byte c in s, 0 when there is none
RECURSIVE IndexByte(_, _)
IndexByte(s, c) ==
    IF s = <<>> THEN 0
    ELSE IF Head(s) = c THEN 1
    ELSE LET r == IndexByte(Tail(s), c) IN IF r = 0 THEN 0 ELSE r + 1

\* binary.LittleEndian: four bytes as an int32 (two's complement)
Int32(b) ==
    b[1] + 256 * b[2] + 65536 * b[3]
         + 16777216 * (IF b[4] >= 128 THEN b[4] - 256 ELSE b[4])

\* binary.LittleEndian: four bytes as a float32, named by its bit pattern
Float32(b) == Int32(b)

\* one byte as an int8
Int8(b) == IF b >= 128 THEN b - 256 ELSE b

-----------------------------------------------------------------------------
(* fmt.Fscanf(reader, "%d %d\n", &vocabSize, &vectorSize) *)

IsDigit(c) == c \in 48..57

\* white space other than the newline
IsBlank(c) == IsSpace(c) /\ c # Newline

RECURSIVE SkipBlanks(_)
SkipBlanks(s) == IF s # <<>> /\ IsBlank(Head(s)) THEN SkipBlanks(Tail(s)) ELSE s

RECURSIVE DigitRun(_)
DigitRun(s) == IF s # <<>> /\ IsDigit(Head(s)) THEN 1 + DigitRun(Tail(s)) ELSE 0

RECURSIVE Atoi(_, _)
Atoi(s, acc) == IF s = <<>> THEN acc ELSE Atoi(Tail(s), 10 * acc + (Head(s) - 48))

\* the verb %d: leading blanks, an optional sign, one or more digits
ScanInt(s) ==
    LET s1 == SkipBlanks(s)
        neg == s1 # <<>> /\ Head(s1) = 45
        s2 == IF s1 # <<>> /\ Head(s1) \in {43, 45} THEN Tail(s1) ELSE s1
        n == DigitRun(s2)
        v == Atoi(SubSeq(s2, 1, n), 0)
    IN  IF s1 = <<>> \/ Head(s1) = Newline \/ n = 0
        THEN [err |-> TRUE, val |-> 0, rest |-> s]
        ELSE [err |-> FALSE, val |-> IF neg THEN 0 - v ELSE v, rest |-> Drop(s2, n)]

\* the space of the format: at least one blank of the input, or its end
ScanSpace(s) ==
    IF s = <<>> THEN [err |-> FALSE, rest |-> s]
    ELSE IF ~IsBlank(Head(s)) THEN [err |-> TRUE, rest |-> s]
    ELSE [err |-> FALSE, rest |-> SkipBlanks(s)]

\* the newline of the format: blanks, then a newline or the end of the input
ScanNewline(s) ==
    LET s1 == SkipBlanks(s)
    IN  IF s1 = <<>> THEN [err |-> FALSE, rest |-> s1]
        ELSE IF Head(s1) = Newline THEN [err |-> FALSE, rest |-> Tail(s1)]
        ELSE [err |-> TRUE, rest |-> s]

Fscanf(s) ==
    LET a == ScanInt(s)
        sp == ScanSpace(a.rest)
        b == ScanInt(sp.rest)
        nl == ScanNewline(b.rest)
    IN  IF a.err \/ sp.err \/ b.err \/ nl.err
        THEN [err |-> TRUE, vocabSize |-> 0, vectorSize |-> 0, rest |-> s]
        ELSE [err |-> FALSE, vocabSize |-> a.val, vectorSize |-> b.val, rest |-> nl.rest]

-----------------------------------------------------------------------------
(* VecModel32bit.LoadModel and VecModel8bit.LoadModel *)

\* what a LoadModel call leaves: the error it returned, whether it panicked,
\* the receiver's Vectors map, and the number of records it read
Outcome(err, panic, vectors, records) ==
    [err |-> err, panic |-> panic, Vectors |-> vectors, records |-> records]

\* mutant: a token already in the map keeps its first vector
StoreVectorIfAbsent(vectors, word, vector) ==
    IF word \in DOMAIN vectors THEN vectors ELSE MapPut(vectors, word, vector)

\* m.Vectors[word] = vector
StoreVector(vectors, word, vector) == MapPut(vectors, word, vector)

\* mutant: a header with a zero count is accepted
NegativeHeader(vocabSize, vectorSize) == vocabSize < 0 \/ vectorSize < 0

\* the header validation of the 32-bit loader
InvalidHeader(vocabSize, vectorSize) == vocabSize <= 0 \/ vectorSize <= 0

\* mutant: what follows the last record is not looked at
EndOfFileUnchecked(rest) == TRUE

\* reader.ReadByte() returns io.EOF
EndOfFile(rest) == rest = <<>>

\* the record loop of the 32-bit loader from record i on, then the end-of-file test
RECURSIVE ReadRecords32bit(_, _, _, _, _)
ReadRecords32bit(rest, vocabSize, vectorSize, vectors, i) ==
    IF i >= vocabSize
    THEN IF EndOfFile(rest)
         THEN Outcome("nil", FALSE, vectors, i)
         ELSE Outcome("unexpected data at end of file", FALSE, vectors, i)
    ELSE LET p == IndexByte(rest, Space)
             word == TrimSpace(SubSeq(rest, 1, p))
             r1 == Drop(rest, p)
             vector == [j \in 1..vectorSize |-> Float32(SubSeq(r1, 4 * j - 3, 4 * j))]
             r2 == Drop(r1, 4 * vectorSize)
             r3 == IF r2 # <<>> /\ Head(r2) = Newline THEN Tail(r2) ELSE r2
         IN  IF p = 0 THEN Outcome("failed to read word", FALSE, vectors, i)
             ELSE IF Len(r1) < 4 * vectorSize
             THEN Outcome("failed to read vector", FALSE, vectors, i)
             ELSE ReadRecords32bit(r3, vocabSize, vectorSize,
                                   StoreVector(vectors, word, vector), i + 1)

\* (m *VecModel32bit) LoadModel on a file record
VecModel32bitLoadModel(f) ==
    IF ~f.exists THEN Outcome("failed to open file", FALSE, EmptyMap, 0)
    ELSE LET h == Fscanf(f.bytes)
         IN  IF h.err THEN Outcome("failed to read header", FALSE, EmptyMap, 0)
             ELSE IF InvalidHeader(h.vocabSize, h.vectorSize)
             THEN Outcome("invalid header", FALSE, EmptyMap, 0)
             ELSE ReadRecords32bit(h.rest, h.vocabSize, h.vectorSize, EmptyMap, 0)

\* the record loop of the 8-bit loader from record i on
RECURSIVE ReadRecords8bit(_, _, _, _, _)
ReadRecords8bit(rest, vocabSize, vectorSize, vectors, i) ==
    IF i >= vocabSize THEN Outcome("nil", FALSE, vectors, i)
    ELSE LET p == IndexByte(rest, Nul)
             word == SubSeq(rest, 1, p - 1)
             r1 == Drop(rest, p)
             vector == [j \in 1..vectorSize |-> Int8(r1[j])]
         IN  IF p = 0 THEN Outcome("failed to read word", FALSE, vectors, i)
             ELSE IF vectorSize < 0
             THEN Outcome("nil", TRUE, vectors, i)   \* make([]int8, vectorSize) panics
             ELSE IF Len(r1) < vectorSize
             THEN Outcome("failed to read vector", FALSE, vectors, i)
             ELSE ReadRecords8bit(Drop(r1, vectorSize), vocabSize, vectorSize,
                                  StoreVector(vectors, word, vector), i + 1)

\* (m *VecModel8bit) LoadModel on a file record
VecModel8bitLoadModel(f) ==
    IF ~f.exists THEN Outcome("failed to open file", FALSE, EmptyMap, 0)
    ELSE IF Len(f.bytes) < 4 THEN Outcome("failed to read vocab size", FALSE, EmptyMap, 0)
    ELSE IF Len(f.bytes) < 8 THEN Outcome("failed to read vector size", FALSE, EmptyMap, 0)
    ELSE IF Len(f.bytes) < 12 THEN Outcome("failed to read min value", FALSE, EmptyMap, 0)
    ELSE IF Len(f.bytes) < 16 THEN Outcome("failed to read max value", FALSE, EmptyMap, 0)
    ELSE ReadRecords8bit(Drop(f.bytes, 16), Int32(SubSeq(f.bytes, 1, 4)),
                         Int32(SubSeq(f.bytes, 5, 8)), EmptyMap, 0)

-----------------------------------------------------------------------------
(* The model files the loaders are run on *)

\* a number in decimal ASCII
RECURSIVE Dec(_)
Dec(n) ==
    IF n < 0 THEN <<45>> \o Dec(0 - n)
    ELSE IF n < 10 THEN <<48 + n>>
    ELSE Dec(n \div 10) \o <<48 + (n % 10)>>

\* an int32, or the bit pattern of a float32, as four little-endian bytes
LE32(n) ==
    LET m == IF n >= 0 THEN n ELSE (n + 2147483647) + 1
        top == m \div 16777216
    IN  <<m % 256, (m \div 256) % 256, (m \div 65536) % 256,
          IF n >= 0 THEN top ELSE top + 128>>

RECURSIVE Concat(_)
Concat(ss) == IF ss = <<>> THEN <<>> ELSE Head(ss) \o Concat(Tail(ss))

\* the words of the files: "k" and "q"
WordK == <<107>>
WordQ == <<113>>

\* the float32 values of the files, by bit pattern: 1.0 and 2.0
F1 == 1065353216
F2 == 1073741824

\* Format A: the header "<vocabCount> <dim>\n", then the records
HeaderA(vocabCount, dim) == Dec(vocabCount) \o <<Space>> \o Dec(dim) \o <<Newline>>

\* the records of the Format A files: a word and its vector (dim = 1), followed
\* or not by the optional newline
RecordsA ==
    {[word |-> WordK, vec |-> <<F1>>], [word |-> WordK, vec |-> <<F2>>],
     [word |-> WordQ, vec |-> <<F1>>]} \X BOOLEAN

EncodeA(r) ==
    r[1].word \o <<Space>> \o Concat([j \in 1..Len(r[1].vec) |-> LE32(r[1].vec[j])])
              \o (IF r[2] THEN <<Newline>> ELSE <<>>)

BodyA(rs) == Concat([i \in 1..Len(rs) |-> EncodeA(rs[i])])

\* the sequences of at most MaxRecords records
RecordSeqsA == UNION {[1..n -> RecordsA] : n \in 0..MaxRecords}

\* a header and as many records as it announces
FileA(rs) == HeaderA(Len(rs), 1) \o BodyA(rs)

WellFormedA == {FileA(rs) : rs \in RecordSeqsA \ {<<>>}}

\* the bytes tried as one extra trailing byte: newline, "k", NUL
TrailBytes == {Newline, 107, Nul}

\* headers that are no "<int> <int>\n": "x 1\n", "1\n", "1 x\n", "1 1x\n", "1", ""
MalformedHeadersA ==
    { <<120, 32, 49, 10>>, <<49, 10>>, <<49, 32, 120, 10>>, <<49, 32, 49, 120, 10>>,
      <<49>>, <<>> }

\* headers whose vocabCount or dim is not positive
NonPositiveHeadersA ==
    {HeaderA(0, 1), HeaderA(1, 0), HeaderA(-1, 1), HeaderA(1, -1), HeaderA(0, 0)}

ShortSeqsA == {rs \in RecordSeqsA : Len(rs) <= 1}

FilesA ==
    {HeaderA(n, 1) \o BodyA(rs) : n \in 1..MaxRecords, rs \in RecordSeqsA}
    \cup {g \o <<b>> : g \in WellFormedA, b \in TrailBytes}
    \cup {SubSeq(g, 1, Len(g) - 1) : g \in WellFormedA}
    \cup {h \o BodyA(rs) : h \in MalformedHeadersA \cup NonPositiveHeadersA,
                            rs \in ShortSeqsA}

\* Format B: the header vocabCount, dim (int32), min, max (float32), then the records
HeaderB(vocabCount, dim) == LE32(vocabCount) \o LE32(dim) \o LE32(0) \o LE32(F1)

\* the records of the Format B files: a word and its vector of one int8
RecordsB ==
    {[word |-> WordK, vec |-> <<5>>], [word |-> WordK, vec |-> <<-5>>],
     [word |-> WordQ, vec |-> <<5>>]}

EncodeB(r) ==
    r.word \o <<Nul>> \o [j \in 1..Len(r.vec) |-> IF r.vec[j] < 0 THEN r.vec[j] + 256 ELSE r.vec[j]]

BodyB(rs) == Concat([i \in 1..Len(rs) |-> EncodeB(rs[i])])

RecordSeqsB == UNION {[1..n -> RecordsB] : n \in 0..MaxRecords}

FileB(rs) == HeaderB(Len(rs), 1) \o BodyB(rs)

WellFormedB == {FileB(rs) : rs \in RecordSeqsB \ {<<>>}}

FilesB ==
    {HeaderB(n, d) \o BodyB(rs) : n \in -1..MaxRecords, d \in -1..1, rs \in RecordSeqsB}
    \cup {SubSeq(g, 1, Len(g) - 1) : g \in WellFormedB}
    \cup {SubSeq(HeaderB(1, 1), 1, n) : n \in {3, 7, 11, 15}}

-----------------------------------------------------------------------------
(* LoadVectorModel *)

DotBin     == <<".", "b", "i", "n">>
Dot8IntBin == <<".", "8", "i", "n", "t">> \o DotBin

\* the paths the model draws from
Filenames ==
    { <<"m">> \o DotBin, <<"m">> \o Dot8IntBin, Dot8IntBin, DotBin,
      <<"m">>, <<"b", "i", "n">>, <<"m", ".", "8", "i", "n", "t">>,
      <<"m">> \o DotBin \o <<".", "g", "z">>, <<"m">> \o Dot8IntBin \o <<".", "g", "z">> }

NoFile == [exists |-> FALSE, bytes |-> <<>>]

\* what a path can hold: no file, or a file with the bytes of a Format A or a
\* Format B file, well formed or not
Files ==
    {NoFile} \cup {[exists |-> TRUE, bytes |-> b] : b \in FilesA \cup FilesB}

\* the branch LoadVectorModel takes: the model type it constructs, or none
SelectModel(path) ==
    IF HasSuffix(path, DotBin) THEN "VecModel32bit"
    ELSE IF HasSuffix(path, Dot8IntBin) THEN "VecModel8bit"
    ELSE "unsupported"

\* model.LoadModel(filename) through the VectorModel interface
LoadModel(type, f) ==
    IF type = "VecModel32bit" THEN VecModel32bitLoadModel(f) ELSE VecModel8bitLoadModel(f)

\* whether the loader of the given type returns an error on the file
LoadModelFails(type, f) == LoadModel(type, f).err # "nil"

\* the outcome of a load: the function called, the type whose LoadModel ran
\* (which opens the file), the type of the store LoadVectorModel returned, the
\* error returned, whether the process panicked, and the receiver's Vectors map
\* and the number of records read
NotLoaded ==
    [done |-> FALSE, call |-> "nil", loader |-> "nil", model |-> "nil", err |-> "nil",
     opened |-> FALSE, panic |-> FALSE, Vectors |-> EmptyMap, records |-> 0]

LoadIdle ==
    /\ filename = <<>>
    /\ file = NoFile
    /\ loaded = NotLoaded

\* calculateSimilarity8bit not called
NotCalculated ==
    [vec1 |-> <<>>, vec2 |-> <<>>, i |-> 0, done |-> FALSE, dotProduct |-> 0,
     norm1 |-> 0, norm2 |-> 0]

\* processTokenStream not called
StreamIdle ==
    /\ version = "none" /\ query = <<>> /\ window = 0 /\ streamThreshold = 0
    /\ stdin = <<>> /\ scanned = 0 /\ streamEnd = FALSE
    /\ tokenBuffer = <<>> /\ bestChunk = <<>> /\ bestSimilarity = 0
    /\ tokensProcessed = 0 /\ chunks = <<>>

ToolsIdle == quantized = NotCalculated /\ StreamIdle

InitLoad ==
    /\ filename \in Filenames
    /\ file \in Files
    /\ loaded = NotLoaded

\* LoadVectorModel(filename)
LoadVectorModel ==
    /\ ~loaded.done
    /\ LET type == SelectModel(filename)
           r == LoadModel(type, file)
       IN  loaded' =
               IF type = "unsupported"
               THEN [NotLoaded EXCEPT !.done = TRUE, !.call = "LoadVectorModel",
                                      !.err = "unsupported file format"]
               ELSE IF LoadModelFails(type, file) \/ r.panic
               THEN [done |-> TRUE, call |-> "LoadVectorModel", loader |-> type,
                     model |-> "nil", err |-> r.err, opened |-> TRUE, panic |-> r.panic,
                     Vectors |-> r.Vectors, records |-> r.records]
               ELSE [done |-> TRUE, call |-> "LoadVectorModel", loader |-> type,
                     model |-> type, err |-> "nil", opened |-> TRUE, panic |-> FALSE,
                     Vectors |-> r.Vectors, records |-> r.records]
    /\ UNCHANGED <<filename, file, cacheVars, scanVars, quantized, streamVars>>

\* a direct call of LoadModel on a new model of the given type
DirectLoadModel(type) ==
    /\ ~loaded.done
    /\ LET r == LoadModel(type, file)
       IN  loaded' = [done |-> TRUE, call |-> "LoadModel", loader |-> type,
                      model |-> "nil", err |-> r.err, opened |-> TRUE, panic |-> r.panic,
                      Vectors |-> r.Vectors, records |-> r.records]
    /\ UNCHANGED <<filename, file, cacheVars, scanVars, quantized, streamVars>>

\* (&VecModel32bit{}).LoadModel(filename)
LoadModel32bit == DirectLoadModel("VecModel32bit")

\* (&VecModel8bit{}).LoadModel(filename)
LoadModel8bit == DirectLoadModel("VecModel8bit")

-----------------------------------------------------------------------------
(* The similarity caches *)

\* the key Cache.MemoizedCalculateSimilarity uses
CacheKey(queryToken, token) == token

\* mutant: the computed similarity is returned and not written to the cache
CacheNeverStores(c, queryToken, token, queryVector, tokenVector) ==
    IF token \in DOMAIN c
    THEN [val |-> c[token], cache |-> c, computed |-> FALSE, panic |-> FALSE]
    ELSE [val |-> calculateSimilarity32bit(queryVector.v, tokenVector.v),
          cache |-> c, computed |-> TRUE, panic |-> FALSE]

\* Cache.MemoizedCalculateSimilarity: the returned value, the cache afterwards,
\* whether the cosine was computed, and whether the call panicked
CacheMemoizedCalculateSimilarity(c, queryToken, token, queryVector, tokenVector) ==
    LET key == CacheKey(queryToken, token)
    IN  IF key \in DOMAIN c
        THEN [val |-> c[key], cache |-> c, computed |-> FALSE, panic |-> FALSE]
        ELSE IF queryVector.type \notin {"float32", "int8"}
                \/ tokenVector.type # queryVector.type
        THEN [val |-> 0, cache |-> c, computed |-> FALSE, panic |-> TRUE]
        ELSE LET similarity ==
                     IF queryVector.type = "float32"
                     THEN calculateSimilarity32bit(queryVector.v, tokenVector.v)
                     ELSE calculateSimilarity8bit(queryVector.v, tokenVector.v)
             IN  [val |-> similarity, cache |-> MapPut(c, key, similarity),
                  computed |-> TRUE, panic |-> FALSE]

\* the key SimilarityCache.MemoizedCalculateSimilarity uses
SimilarityCacheKey(queryToken, token) == queryToken \o <<"|">> \o token

\* whether SimilarityCache stores the result computed for a key
SimilarityCacheStores(key) == Len(key) <= MaxKeyLen

\* SimilarityCache.MemoizedCalculateSimilarity (vectors are []float32)
SimilarityCacheMemoizedCalculateSimilarity(c, queryToken, token, queryVector, tokenVector) ==
    LET key == SimilarityCacheKey(queryToken, token)
        result == calculateSimilarity32bit(queryVector.v, tokenVector.v)
    IN  IF ~SimilarityCacheStores(key)
        THEN [val |-> result, cache |-> c, computed |-> TRUE, panic |-> FALSE]
        ELSE IF key \in DOMAIN c
        THEN [val |-> c[key], cache |-> c, computed |-> FALSE, panic |-> FALSE]
        ELSE [val |-> result, cache |-> MapPut(c, key, result),
              computed |-> TRUE, panic |-> FALSE]

-----------------------------------------------------------------------------
(* Direct use of a cache: any sequence of calls on one cache *)

CallQueries == {<<"k">>, <<"q">>, LongWord}
CallTokens  == {<<"m">>, LongWord}

ScanIdle ==
    /\ queries = <<>> /\ similarityThreshold = 0
    /\ contextBefore = 0 /\ contextAfter = 0
    /\ ignoreCase = FALSE /\ outputOnlyMatching = FALSE /\ outputOnlyLines = FALSE
    /\ queryVectors = EmptyMap /\ queryInModel = EmptyMap
    /\ input = <<>> /\ eof = FALSE
    /\ line = <<>> /\ lineNumber = 0 /\ tokens = <<>>
    /\ matched = FALSE /\ highlightedLine = <<>>
    /\ similarityScore = 0 /\ matchSimilarityScore = 0
    /\ contextBuffer = <<>> /\ contextLineNumbers = <<>>
    /\ out = <<>> /\ pc = "idle"
    /\ tokenized = {} /\ trailing = {} /\ printed = <<>>
    /\ flags = [A |-> 0, B |-> 0, C |-> 0] /\ scanErr = "nil" /\ stderr = <<>>

CacheIdle == impl = "Cache" /\ cache = EmptyMap /\ calls = <<>> /\ aborted = FALSE

\* NewSimilarityCache of either package, before any call
InitCache ==
    /\ impl \in {"Cache", "SimilarityCache"}
    /\ cache = EmptyMap
    /\ calls = <<>>
    /\ aborted = FALSE
    /\ ScanIdle
    /\ LoadIdle /\ ToolsIdle

\* the log entry of a call: its arguments (the vectors by their types), the value
\* returned, whether the cosine was computed, and what the caller received: the
\* float64 result, or nothing when the call panicked
LogTypedCall(q, t, queryVector, tokenVector, r) ==
    Append(calls, [impl |-> impl, q |-> q, t |-> t, val |-> r.val, computed |-> r.computed,
                   qtype |-> queryVector.type, ttype |-> tokenVector.type,
                   returned |-> IF r.panic THEN "panic" ELSE "float64"])

LogCall(q, t, r) == LogTypedCall(q, t, Vectors[q], Vectors[t], r)

CallCache ==
    /\ impl = "Cache" /\ ~aborted
    /\ Len(calls) < MaxCalls
    /\ \E q \in CallQueries, t \in CallTokens :
         LET r == CacheMemoizedCalculateSimilarity(cache, q, t, Vectors[q], Vectors[t])
         IN  /\ ~r.panic
             /\ cache' = r.cache
             /\ calls' = LogCall(q, t, r)
    /\ UNCHANGED <<impl, aborted, scanVars, loadVars, quantized, streamVars>>

CallSimilarityCache ==
    /\ impl = "SimilarityCache" /\ ~aborted
    /\ Len(calls) < MaxCalls
    /\ \E q \in CallQueries, t \in CallTokens :
         LET r == SimilarityCacheMemoizedCalculateSimilarity(cache, q, t, Vectors[q], Vectors[t])
         IN  /\ cache' = r.cache
             /\ calls' = LogCall(q, t, r)
    /\ UNCHANGED <<impl, aborted, scanVars, loadVars, quantized, streamVars>>

NextCache == CallCache \/ CallSimilarityCache

SpecCache == InitCache /\ [][NextCache]_vars

\* the embeddings a caller can hold for a token: the []float32 of a 32-bit model,
\* the []int8 of an 8-bit model, or a value of another type
Embeddings(t) ==
    {Vectors[t], Vectors8bit[t], [type |-> "float64", v |-> Vectors[t].v]}

\* whether Cache.MemoizedCalculateSimilarity has a similarity function for the pair
Compatible(queryVector, tokenVector) ==
    queryVector.type \in {"float32", "int8"} /\ tokenVector.type = queryVector.type

\* a call of Cache.MemoizedCalculateSimilarity with vectors of two types, or of a
\* type that is neither []float32 nor []int8 (the parameters are interface{})
CallCacheMismatch ==
    /\ impl = "Cache" /\ ~aborted
    /\ Len(calls) < MaxCalls
    /\ \E q \in CallQueries, t \in CallTokens :
         \E qv \in Embeddings(q), tv \in Embeddings(t) :
            LET r == CacheMemoizedCalculateSimilarity(cache, q, t, qv, tv)
            IN  /\ ~Compatible(qv, tv)
                /\ cache' = r.cache
                /\ calls' = LogTypedCall(q, t, qv, tv, r)
                /\ aborted' = r.panic
    /\ UNCHANGED <<impl, scanVars, loadVars, quantized, streamVars>>

NextTypes == NextCache \/ CallCacheMismatch

SpecTypes == InitCache /\ [][NextTypes]_vars

-----------------------------------------------------------------------------
(* Claims about the caches *)

\* the cosine similarity of the embeddings of two tokens of the store
Cosine(q, t) == calculateSimilarity32bit(Vectors[q].v, Vectors[t].v)

\* C1: every call returns the cosine similarity of its own query's and its
\* token's embeddings, whatever other queries were scored against the same
\* token earlier on the same cache.
C1_ScoreIsOfItsOwnQuery ==
    \A i \in 1..Len(calls) : calls[i].val = Cosine(calls[i].q, calls[i].t)

\* the number of cosine computations the calls so far ran for a pair
Computations(q, t) ==
    Cardinality({i \in 1..Len(calls) : calls[i].q = q /\ calls[i].t = t /\ calls[i].computed})

\* the values the calls so far returned for a pair
Returned(q, t) ==
    {calls[i].val : i \in {j \in 1..Len(calls) : calls[j].q = q /\ calls[j].t = t}}

\* C2 as stated: for every pair, whatever the token lengths, the cosine is
\* computed at most once in the life of the cache and every lookup of the
\* pair returns one and the same value.
C2_AtMostOneComputationAnyLength ==
    \A q \in CallQueries, t \in CallTokens :
        Computations(q, t) <= 1 /\ Cardinality(Returned(q, t)) <= 1

\* whether the cache in use stores results for the pair
Stored(q, t) ==
    impl = "Cache" \/ Len(q) + 1 + Len(t) <= MaxKeyLen

\* C2 amended: for every pair whose key the cache stores (every pair for
\* Cache; for SimilarityCache the pairs whose key queryToken|token is at most
\* 30 bytes long) the cosine is computed at most once and every lookup of
\* the pair returns one and the same value, which is the stored one.
C2_AtMostOneComputationStoredKeys ==
    \A q \in CallQueries, t \in CallTokens :
        Stored(q, t) =>
            /\ Computations(q, t) <= 1
            /\ Cardinality(Returned(q, t)) <= 1
            /\ \A i \in 1..Len(calls) :
                 (calls[i].q = q /\ calls[i].t = t) =>
                     LET key == IF impl = "Cache" THEN CacheKey(q, t)
                                ELSE SimilarityCacheKey(q, t)
                     IN  key \in DOMAIN cache /\ cache[key] = calls[i].val

\* C2 witness: a stored pair was looked up twice, the second time from the cache
C2_Witness ==
    \E i, j \in 1..Len(calls) :
        /\ i < j /\ calls[i].q = calls[j].q /\ calls[i].t = calls[j].t
        /\ Stored(calls[i].q, calls[i].t)
        /\ calls[i].computed /\ ~calls[j].computed

\* the score a call for (query a, candidate b) returns in the current state of
\* the cache
Score(a, b) ==
    IF impl = "Cache"
    THEN CacheMemoizedCalculateSimilarity(cache, a, b, Vectors[a], Vectors[b]).val
    ELSE SimilarityCacheMemoizedCalculateSimilarity(cache, a, b, Vectors[a], Vectors[b]).val

\* C17: in every state of the cache, the score returned for (query a,
\* candidate b) equals the score returned for (query b, candidate a).
C17_ScoreSymmetric ==
    \A a, b \in DOMAIN Vectors : Score(a, b) = Score(b, a)

\* C14: a call given a []float32 and a []int8 vector, or a vector of another
\* type, hands an error value back to its caller, does not abort the process,
\* and leaves the cache as it was.
C14_MismatchIsAnErrorValue ==
    [][Len(calls') > Len(calls) =>
           LET c == calls'[Len(calls')]
           IN  (c.qtype # c.ttype \/ c.qtype \notin {"float32", "int8"})
                   => (c.returned = "error" /\ ~aborted' /\ cache' = cache)]_vars

-----------------------------------------------------------------------------
(* ProcessLineByLine, the multi-query matcher *)

\* the inputs the model draws from: lines of the stream, query lists, thresholds
LineSet ==
    { <<"K", " ", "d">>, <<"m", " ", "q">>, <<"q", " ", "k">> }
QueryLists ==
    { << <<"k">> >>, << <<"q">>, <<"k">> >>, << <<"K">>, <<"d">> >> }
Thresholds == {7000, 8000, 10000}

Normalize(fold, s) == IF fold THEN ToLower(s) ELSE s

\* the query preparation loop: the maps queryVectors and queryInModel
RECURSIVE PrepareQueries(_, _, _)
PrepareQueries(qs, fold, acc) ==
    IF qs = <<>> THEN acc
    ELSE LET queryTokenToCheck == Normalize(fold, Head(qs))
             e == GetEmbedding(queryTokenToCheck)
         IN  PrepareQueries(Tail(qs), fold,
                 IF e.err
                 THEN [acc EXCEPT !.inModel = MapPut(@, queryTokenToCheck, FALSE)]
                 ELSE [vectors |-> MapPut(acc.vectors, queryTokenToCheck, e.vec),
                       inModel |-> MapPut(acc.inModel, queryTokenToCheck, TRUE)])

\* what the standard output receives, one record per written line
ScoreLine(score) == [kind |-> "score", text |-> <<>>, num |-> 0, score |-> score]
TokenLine(token) == [kind |-> "token", text |-> token, num |-> 0, score |-> 0]
Separator        == [kind |-> "sep", text |-> <<>>, num |-> 0, score |-> 0]
\* utils.PrintLine(line, lineNumber, printLineNumbers)
PrintLine(text, n) == [kind |-> "line", text |-> text, num |-> n, score |-> 0]

\* the orders in which a range over a map with the keys S may visit them
Orders(S) ==
    {o \in [1..Cardinality(S) -> S] : \A i, j \in 1..Cardinality(S) : i # j => o[i] # o[j]}

\* the locals the token loop reads and writes
Locals ==
    [matched |-> matched, highlightedLine |-> highlightedLine,
     similarityScore |-> similarityScore, matchSimilarityScore |-> matchSimilarityScore,
     cache |-> cache, out |-> out, printed |-> printed]

\* mutant: the threshold test admits a score equal to the threshold
AtOrAboveThreshold(score) == score >= similarityThreshold

\* the threshold test of the similarity branch
AboveThreshold(score) == score > similarityThreshold

\* the body of the query loop for one query: the exact test, else the lookup
\* and the memoized score against the threshold
TestQuery(st, token, tokenToCheck, queryTokenToCheck) ==
    IF tokenToCheck = queryTokenToCheck
    THEN [st EXCEPT !.similarityScore = One, !.matchSimilarityScore = One,
                    !.matched = TRUE,
                    !.highlightedLine = Highlight(line, token)]
    ELSE IF queryInModel[queryTokenToCheck]
    THEN LET e == GetEmbedding(tokenToCheck)
         IN  IF e.err THEN st
             ELSE LET r == CacheMemoizedCalculateSimilarity(st.cache, queryTokenToCheck,
                               tokenToCheck, queryVectors[queryTokenToCheck], e.vec)
                      st0 == [st EXCEPT !.similarityScore = r.val, !.cache = r.cache]
                  IN  IF AboveThreshold(r.val)
                      THEN [st0 EXCEPT !.matched = TRUE,
                                !.highlightedLine = Highlight(line, token),
                                !.matchSimilarityScore = r.val]
                      ELSE st0
    ELSE st

\* the loop over queryVectors for one token, visiting the keys in the order ord;
\* it ends at the first query after which matched is set
RECURSIVE QueryLoop(_, _, _, _)
QueryLoop(st, token, tokenToCheck, ord) ==
    IF ord = <<>> THEN st
    ELSE LET st1 == TestQuery(st, token, tokenToCheck, Head(ord))
         IN  IF st1.matched
             THEN IF outputOnlyMatching
                  THEN [st1 EXCEPT !.out = Append(@, TokenLine(token)),
                                   !.printed = Append(@, token)]
                  ELSE st1
             ELSE QueryLoop(st1, token, tokenToCheck, Tail(ord))

\* ProcessLineByLine up to its scan loop: the query maps are built, the scanner
\* and the context buffer are new
ScanStart ==
    /\ LET p == PrepareQueries(queries, ignoreCase, [vectors |-> EmptyMap, inModel |-> EmptyMap])
       IN  queryVectors = p.vectors /\ queryInModel = p.inModel
    /\ input = <<>> /\ eof = FALSE /\ scanErr = "nil" /\ stderr = <<>>
    /\ line = <<>> /\ lineNumber = 0 /\ tokens = <<>>
    /\ matched = FALSE /\ highlightedLine = <<>>
    /\ similarityScore = 0 /\ matchSimilarityScore = 0
    /\ contextBuffer = <<>> /\ contextLineNumbers = <<>>
    /\ out = <<>> /\ pc = "scan"
    /\ tokenized = {} /\ trailing = {} /\ printed = <<>>

\* a call of ProcessLineByLine with any arguments (the flags are those main was
\* given for them)
InitScan ==
    /\ CacheIdle
    /\ LoadIdle /\ ToolsIdle
    /\ queries \in QueryLists
    /\ similarityThreshold \in Thresholds
    /\ contextBefore \in 0..MaxContext
    /\ contextAfter \in 0..MaxContext
    /\ ignoreCase \in BOOLEAN
    /\ outputOnlyMatching \in BOOLEAN
    /\ outputOnlyLines \in BOOLEAN
    /\ flags = [A |-> contextBefore, B |-> contextAfter, C |-> 0]
    /\ ScanStart

\* scanner.Scan() of the outer loop returns a line: the per-line locals are reset
\* and the line is handed to the segmenter
ScanLine ==
    /\ pc = "scan" /\ ~eof /\ Len(input) < MaxLines
    /\ \E l \in LineSet :
         /\ input' = Append(input, l)
         /\ line' = l
         /\ tokens' = Segment(l)
    /\ lineNumber' = lineNumber + 1
    /\ matched' = FALSE /\ highlightedLine' = <<>>
    /\ similarityScore' = 0 /\ matchSimilarityScore' = 0
    /\ tokenized' = tokenized \cup {Len(input) + 1}
    /\ printed' = <<>>
    /\ pc' = "tokens"
    /\ UNCHANGED <<loadVars, quantized, streamVars, cacheVars, argVars, queryVars, eof, ctxVars, out, trailing,
                   callVars>>

\* the ways a scanner.Scan() that returns false can leave scanner.Err(): the end
\* of the input, or a failed read
ScanStops == {"nil", "read error"}

\* the function's results: its signature declares none
Results == <<>>

\* what the function writes to standard error once the scan loop is over
ReportErr(err) ==
    IF err # "nil" THEN Append(stderr, <<"Error reading input", err>>) ELSE stderr

\* mutant: the lines still in the context buffer are printed at the end
ScanEndFlush ==
    /\ pc = "scan"
    /\ IF eof THEN UNCHANGED scanErr ELSE scanErr' \in ScanStops
    /\ eof' = TRUE
    /\ stderr' = ReportErr(scanErr')
    /\ out' = out \o [i \in 1..Len(contextBuffer) |->
                        [kind |-> "line", text |-> contextBuffer[i],
                         num |-> contextLineNumbers[i], score |-> 0]]
    /\ pc' = "done"
    /\ UNCHANGED <<loadVars, quantized, streamVars, cacheVars, argVars, queryVars, input, lineVars, ctxVars,
                   ghostVars, flags>>

\* scanner.Scan() of the outer loop returns false, at the end of the input or on
\* a read error: the error is reported and the function returns
ScanEnd ==
    /\ pc = "scan"
    /\ IF eof THEN UNCHANGED scanErr ELSE scanErr' \in ScanStops
    /\ eof' = TRUE
    /\ stderr' = ReportErr(scanErr')
    /\ pc' = "done"
    /\ UNCHANGED <<loadVars, quantized, streamVars, cacheVars, argVars, queryVars, input, lineVars, ctxVars, out,
                   ghostVars, flags>>

\* one iteration of the token loop: tokens.Next(), then the loop over queryVectors
CheckToken ==
    /\ pc = "tokens" /\ tokens # <<>>
    /\ \E ord \in Orders(DOMAIN queryVectors) :
         LET token == Head(tokens)
             st == QueryLoop(Locals, token, Normalize(ignoreCase, token), ord)
         IN  /\ matched' = st.matched
             /\ highlightedLine' = st.highlightedLine
             /\ similarityScore' = st.similarityScore
             /\ matchSimilarityScore' = st.matchSimilarityScore
             /\ cache' = st.cache
             /\ out' = st.out
             /\ printed' = st.printed
    /\ tokens' = Tail(tokens)
    /\ UNCHANGED <<loadVars, quantized, streamVars, impl, calls, aborted, argVars, queryVars, input, eof, line, lineNumber,
                   ctxVars, pc, tokenized, trailing, callVars>>

\* the lines the after-context loop can read: contextAfter of them, or fewer when
\* scanner.Scan() returns false first
AfterReads ==
    {a \in UNION {[1..n -> LineSet] : n \in 0..contextAfter} :
        Len(input) + Len(a) <= MaxLines}

\* mutant: the after-context lines are printed and left in the stream
ConsumeNothing(a) == input

\* the lines the scanner has returned once the after-context loop has read a
ConsumeAfter(a) == input \o a

\* mutant: the buffer is appended to and never trimmed
AppendContextNoTrim(buf, x) == Append(buf, x)

\* mutant: when the buffer is full the newest entry is not taken
AppendContextKeepOldest(buf, x) ==
    IF Len(buf) + 1 > contextBefore THEN buf ELSE Append(buf, x)

\* the context buffer after a non-matching line: appended, oldest dropped when
\* longer than contextBefore
AppendContext(buf, x) ==
    LET b == Append(buf, x)
    IN  IF Len(b) > contextBefore THEN Tail(b) ELSE b

\* mutant: the context lines are printed newest first
RECURSIVE ContextLinesNewestFirst(_, _)
ContextLinesNewestFirst(buf, nums) ==
    IF buf = <<>> THEN <<>>
    ELSE ContextLinesNewestFirst(Tail(buf), Tail(nums)) \o <<PrintLine(Head(buf), Head(nums))>>

\* the context lines before the match, as printed
RECURSIVE ContextLines(_, _)
ContextLines(buf, nums) ==
    IF buf = <<>> THEN <<>>
    ELSE <<PrintLine(Head(buf), Head(nums))>> \o ContextLines(Tail(buf), Tail(nums))

\* mutant: the lines after the match carry the number of the matched line
AfterLinesSameNumber(a) == [i \in 1..Len(a) |-> PrintLine(a[i], lineNumber)]

\* the lines after the match, as printed
AfterLines(a) == [i \in 1..Len(a) |-> PrintLine(a[i], lineNumber + i)]

\* mutant: the context buffer is kept after a match
KeepContext(buf) == buf

\* contextBuffer = nil; contextLineNumbers = nil
ClearContext(buf) == <<>>

\* the token loop is over and the line matched: emission by output mode, then the
\* context buffer is cleared
HandleMatch ==
    /\ pc = "tokens" /\ tokens = <<>> /\ matched
    /\ IF outputOnlyMatching
       THEN UNCHANGED <<out, input, eof, scanErr, lineNumber, trailing>>
       ELSE IF outputOnlyLines
       THEN /\ out' = Append(out, PrintLine(highlightedLine, lineNumber))
            /\ UNCHANGED <<input, eof, scanErr, lineNumber, trailing>>
       ELSE \E a \in AfterReads :
            /\ out' = out \o <<ScoreLine(matchSimilarityScore)>>
                          \o ContextLines(contextBuffer, contextLineNumbers)
                          \o <<PrintLine(highlightedLine, lineNumber)>>
                          \o AfterLines(a)
                          \o <<Separator>>
            /\ input' = ConsumeAfter(a)
            /\ eof' = (Len(a) < contextAfter)
            /\ IF Len(a) < contextAfter THEN scanErr' \in ScanStops ELSE UNCHANGED scanErr
            /\ lineNumber' = lineNumber + Len(a)
            /\ trailing' = trailing \cup {Len(input) + i : i \in 1..Len(a)}
    /\ contextBuffer' = ClearContext(contextBuffer)
    /\ contextLineNumbers' = ClearContext(contextLineNumbers)
    /\ pc' = "scan"
    /\ UNCHANGED <<loadVars, quantized, streamVars, cacheVars, argVars, queryVars, line, tokens, matched, highlightedLine,
                   similarityScore, matchSimilarityScore, tokenized, printed, flags, stderr>>

\* mutant: only-lines mode accumulates context
KeepsContextInOnlyLines == contextBefore > 0 /\ ~outputOnlyMatching

\* whether a non-matching line goes to the context buffer
KeepsContext == contextBefore > 0 /\ ~outputOnlyMatching /\ ~outputOnlyLines

\* the token loop is over and the line did not match: the context buffer is updated
HandleNoMatch ==
    /\ pc = "tokens" /\ tokens = <<>> /\ ~matched
    /\ IF KeepsContext
       THEN /\ contextBuffer' = AppendContext(contextBuffer, line)
            /\ contextLineNumbers' = AppendContext(contextLineNumbers, lineNumber)
       ELSE UNCHANGED ctxVars
    /\ pc' = "scan"
    /\ UNCHANGED <<loadVars, quantized, streamVars, cacheVars, argVars, queryVars, input, eof, lineVars, out, ghostVars,
                   callVars>>

Init == InitScan

Next == ScanLine \/ ScanEnd \/ CheckToken \/ HandleMatch \/ HandleNoMatch

Spec == Init /\ [][Next]_vars

\* main: opts.ContextBefore and opts.ContextAfter as ProcessLineByLine receives
\* them: -A is bound to ContextBefore and -B to ContextAfter, and a positive -C
\* overwrites both
ContextBeforeOf(f) == IF f.C > 0 THEN f.C ELSE f.A
ContextAfterOf(f)  == IF f.C > 0 THEN f.C ELSE f.B

\* the threshold main passes when -t is not given
DefaultThreshold == 7000

\* main, up to its call of ProcessLineByLine: one query, the default threshold,
\* full output mode, and any values of -A, -B and -C
InitMain ==
    /\ CacheIdle
    /\ LoadIdle /\ ToolsIdle
    /\ flags \in [A : 0..MaxContext, B : 0..MaxContext, C : 0..MaxContext]
    /\ queries = << <<"k">> >>
    /\ similarityThreshold = DefaultThreshold
    /\ contextBefore = ContextBeforeOf(flags)
    /\ contextAfter = ContextAfterOf(flags)
    /\ ignoreCase = FALSE
    /\ outputOnlyMatching = FALSE
    /\ outputOnlyLines = FALSE
    /\ ScanStart

SpecMain == InitMain /\ [][Next]_vars

\* the loader alone: one call of LoadVectorModel on a path and a file
InitLoadOnly == InitLoad /\ CacheIdle /\ ScanIdle /\ ToolsIdle

NextLoad == LoadVectorModel

SpecLoad == InitLoadOnly /\ [][NextLoad]_vars

\* the loaders: LoadVectorModel, or LoadModel called on a model of either type
NextModel == LoadVectorModel \/ LoadModel32bit \/ LoadModel8bit

SpecModel == InitLoadOnly /\ [][NextModel]_vars

\* the highlighter alone: the token loop of ProcessLineByLine on one line in
\* which every word matches (each word is a query), so that each word of the
\* line is highlighted in turn
InitHighlight ==
    /\ CacheIdle /\ LoadIdle /\ ToolsIdle
    /\ queries = <<>> /\ similarityThreshold = 0
    /\ contextBefore = 0 /\ contextAfter = 0
    /\ ignoreCase = FALSE /\ outputOnlyMatching = FALSE /\ outputOnlyLines = FALSE
    /\ queryVectors = EmptyMap /\ queryInModel = EmptyMap
    /\ eof = FALSE
    /\ line \in UNION {[1..n -> {"k", "q", " "}] : n \in 1..MaxLen}
    /\ input = <<line>> /\ lineNumber = 1 /\ tokens = Segment(line)
    /\ matched = FALSE /\ highlightedLine = <<>>
    /\ similarityScore = 0 /\ matchSimilarityScore = 0
    /\ contextBuffer = <<>> /\ contextLineNumbers = <<>>
    /\ out = <<>> /\ pc = "highlight"
    /\ tokenized = {1} /\ trailing = {} /\ printed = <<>>
    /\ flags = [A |-> 0, B |-> 0, C |-> 0] /\ scanErr = "nil" /\ stderr = <<>>

\* the exact-match branch for a word of the line; white space matches nothing
HighlightToken ==
    /\ pc = "highlight" /\ tokens # <<>>
    /\ LET token == Head(tokens)
       IN  IF IsLetter(Head(token))
           THEN /\ similarityScore' = One
                /\ matchSimilarityScore' = One
                /\ matched' = TRUE
                /\ highlightedLine' = Highlight(line, token)
           ELSE UNCHANGED <<similarityScore, matchSimilarityScore, matched,
                            highlightedLine>>
    /\ tokens' = Tail(tokens)
    /\ UNCHANGED <<cacheVars, argVars, queryVars, input, eof, line, lineNumber,
                   ctxVars, out, pc, ghostVars, callVars, loadVars, quantized, streamVars>>

NextHighlight == HighlightToken

SpecHighlight == InitHighlight /\ [][NextHighlight]_vars

\* calculateSimilarity8bit alone, on two int8 vectors of the largest dimension,
\* one iteration of its loop at a time
InitQuantized ==
    /\ CacheIdle /\ ScanIdle /\ LoadIdle /\ StreamIdle
    /\ \E v1, v2 \in {[j \in 1..MaxDim |-> c] : c \in {-128, -127, -1, 0, 1, 127}}
                        \cup {[j \in 1..MaxDim |-> IF j % 2 = 1 THEN 127 ELSE -128]} :
           quantized = [NotCalculated EXCEPT !.vec1 = v1, !.vec2 = v2]

\* for i := range vec1 { ... }
IterateQuantized ==
    /\ ~quantized.done
    /\ quantized.i < Len(quantized.vec1)
    /\ LET i   == quantized.i + 1
           acc == Iterate8bit(quantized, quantized.vec1, quantized.vec2, i)
       IN  quantized' = [quantized EXCEPT !.i = i,
                                          !.dotProduct = acc.dotProduct,
                                          !.norm1 = acc.norm1,
                                          !.norm2 = acc.norm2]
    /\ UNCHANGED <<cacheVars, scanVars, loadVars, streamVars>>

\* the loop is over: the sums go to the floating-point division
ReturnQuantized ==
    /\ ~quantized.done
    /\ quantized.i = Len(quantized.vec1)
    /\ quantized' = [quantized EXCEPT !.done = TRUE]
    /\ UNCHANGED <<cacheVars, scanVars, loadVars, streamVars>>

NextQuantized == IterateQuantized \/ ReturnQuantized

SpecQuantized == InitQuantized /\ [][NextQuantized]_vars

-----------------------------------------------------------------------------
(* sgrep: the sliding-window matcher processTokenStream *)

stopWords == {<<"a">>}

\* getVectorEmbedding: the vector of the model, or zeros for a word it lacks
getVectorEmbedding(token) ==
    IF token \in DOMAIN Vectors THEN Vectors[token].v ELSE <<0, 0>>

\* toVector: the mean of the vectors of the words that are not stop words.
\* The model keeps the sum: calculateSimilarity gives the same value for a
\* vector and for that vector divided by a positive count.
RECURSIVE toVector(_)
toVector(ts) ==
    IF ts = <<>> THEN <<0, 0>>
    ELSE LET token == ToLower(Head(ts))
             rest  == toVector(Tail(ts))
         IN  IF token \in stopWords THEN rest
             ELSE LET vec == getVectorEmbedding(token)
                  IN  <<vec[1] + rest[1], vec[2] + rest[2]>>

\* the largest r in lo..hi with r * r <= n (lo * lo <= n)
RECURSIVE Bisect(_, _, _)
Bisect(n, lo, hi) ==
    IF lo >= hi THEN lo
    ELSE LET mid == (lo + hi + 1) \div 2
         IN  IF mid * mid <= n THEN Bisect(n, mid, hi) ELSE Bisect(n, lo, mid - 1)

\* calculateSimilarity of sgrep, in units of 1/Scale, rounded down; -1 stands
\* for the NaN of 0/0, which is greater than nothing
calculateSimilarity(queryVector, tokenVector) ==
    LET dotProduct == SumProd(queryVector, tokenVector, Len(queryVector))
        normQuery  == SumProd(queryVector, queryVector, Len(queryVector))
        normToken  == SumProd(tokenVector, tokenVector, Len(queryVector))
        root       == Bisect(normQuery * normToken * 10000, 0, 46340)
    IN  IF normQuery * normToken = 0 THEN -1
        ELSE (dotProduct * Scale * 100) \div root

RECURSIVE CountChars(_)
CountChars(text) ==
    IF text = <<>> THEN 0
    ELSE (IF Head(text) \in {",", "."} THEN 1 ELSE 0) + CountChars(Tail(text))

RECURSIVE countPunctuations(_)
countPunctuations(textList) ==
    IF textList = <<>> THEN 0
    ELSE CountChars(Head(textList)) + countPunctuations(Tail(textList))

\* the words of a buffer of tokens; a token of the model carries its position
\* on the input next to its text
Texts(buf) == [i \in 1..Len(buf) |-> buf[i].text]

\* the input: every word is k but at most one, which is m, a stop word or a comma
InitStream ==
    /\ CacheIdle /\ ScanIdle /\ LoadIdle /\ quantized = NotCalculated
    /\ version \in {"part_002", "part_003"}
    /\ query = <<<<"k">>>>
    /\ window \in 1..MaxWindow
    /\ streamThreshold \in {7000, 9980}
    /\ \E n \in 0..MaxStream :
           stdin \in {[i \in 1..n |-> <<"k">>]}
                        \cup {[i \in 1..n |-> IF i = j THEN w ELSE <<"k">>] :
                                  j \in 1..n, w \in {<<"m">>, <<"a">>, <<",">>}}
    /\ scanned = 0 /\ streamEnd = FALSE
    /\ tokenBuffer = <<>> /\ bestChunk = <<>> /\ bestSimilarity = 0
    /\ tokensProcessed = 0 /\ chunks = <<>>

stepSize == window \div 10

\* fmt.Printf("Similarity: %.4f\n", ...) and colorText(strings.Join(chunk, " "), ...)
PrintChunk(similarity, chunk) == Append(chunks, [similarity |-> similarity, chunk |-> chunk])

\* one turn of the loop of processTokenStream of part_002: a word is read and
\* appended and, if that fills the window, the window is scored, the best
\* chunk is printed when due, and the window slides
ScanWordBest ==
    /\ version = "part_002" /\ ~streamEnd /\ scanned < Len(stdin)
    /\ scanned' = scanned + 1
    /\ LET token  == [text |-> stdin[scanned + 1], pos |-> scanned + 1]
           buffer == Append(tokenBuffer, token)
       IN  IF Len(buffer) = window
           THEN LET similarity ==
                        calculateSimilarity(toVector(query), toVector(Texts(buffer)))
                    better ==
                        /\ countPunctuations(Texts(buffer)) <= window \div 5
                        /\ similarity > streamThreshold
                        /\ similarity > bestSimilarity
                    best    == IF better THEN similarity ELSE bestSimilarity
                    chunk   == IF better THEN buffer ELSE bestChunk
                    counted == tokensProcessed + stepSize
                IN  /\ bestChunk' = chunk
                    /\ IF counted >= window
                       THEN /\ chunks' = IF best > 0 THEN PrintChunk(best, chunk)
                                         ELSE chunks
                            /\ bestSimilarity' = 0
                            /\ tokensProcessed' = 0
                       ELSE /\ chunks' = chunks
                            /\ bestSimilarity' = best
                            /\ tokensProcessed' = counted
                    /\ tokenBuffer' = Drop(buffer, stepSize)
           ELSE /\ tokenBuffer' = buffer
                /\ UNCHANGED <<bestChunk, bestSimilarity, tokensProcessed, chunks>>
    /\ UNCHANGED <<version, query, window, streamThreshold, stdin, streamEnd,
                   cacheVars, scanVars, loadVars, quantized>>

\* one turn of the loop of processTokenStream of part_003: every window above
\* the threshold is printed
ScanWordEvery ==
    /\ version = "part_003" /\ ~streamEnd /\ scanned < Len(stdin)
    /\ scanned' = scanned + 1
    /\ LET token  == [text |-> stdin[scanned + 1], pos |-> scanned + 1]
           buffer == Append(tokenBuffer, token)
       IN  IF Len(buffer) = window
           THEN LET similarity ==
                        calculateSimilarity(toVector(query), toVector(Texts(buffer)))
                IN  /\ chunks' = IF /\ countPunctuations(Texts(buffer)) <= window \div 5
                                    /\ similarity > streamThreshold
                                 THEN PrintChunk(similarity, buffer)
                                 ELSE chunks
                    /\ tokenBuffer' = Drop(buffer, stepSize)
           ELSE /\ tokenBuffer' = buffer
                /\ chunks' = chunks
    /\ UNCHANGED <<version, query, window, streamThreshold, stdin, streamEnd,
                   bestChunk, bestSimilarity, tokensProcessed,
                   cacheVars, scanVars, loadVars, quantized>>

\* the input is over: part_002 prints the best chunk it still holds
StreamReturn ==
    /\ version # "none" /\ ~streamEnd /\ scanned = Len(stdin)
    /\ streamEnd' = TRUE
    /\ chunks' = IF version = "part_002" /\ bestSimilarity > 0
                 THEN PrintChunk(bestSimilarity, bestChunk)
                 ELSE chunks
    /\ UNCHANGED <<version, query, window, streamThreshold, stdin, scanned,
                   tokenBuffer, bestChunk, bestSimilarity, tokensProcessed,
                   cacheVars, scanVars, loadVars, quantized>>

NextStream == ScanWordBest \/ ScanWordEvery \/ StreamReturn

SpecStream == InitStream /\ [][NextStream]_vars

-----------------------------------------------------------------------------
(* Claims about the matcher *)

\* the token loop of the current line is over
EndOfTokens == pc = "tokens" /\ tokens = <<>>

\* the supplied query terms, normalized
NormalizedQueries == {Normalize(ignoreCase, queries[i]) : i \in 1..Len(queries)}

\* the tokens of the current line
LineTokens == {Segment(line)[i] : i \in 1..Len(Segment(line))}

\* the highlighted line is the current line with the token t highlighted
Highlights(t) == highlightedLine = Replace(line, t, ColorText(t))

\* C3: when the token loop of a line is over, a line holding a token whose
\* normalized text equals the normalized text of a supplied query term is a
\* match, also when that query term is not in the store.
C3_ExactMatchAlsoForAbsentQuery ==
    (EndOfTokens /\ \E t \in LineTokens : Normalize(ignoreCase, t) \in NormalizedQueries)
        => matched

C5_FirstMatchWins ==
    [][(pc = "tokens" /\ matched /\ pc' = "tokens")
           => /\ highlightedLine' = highlightedLine
              /\ matchSimilarityScore' = matchSimilarityScore
              /\ similarityScore' = similarityScore
              /\ cache' = cache]_vars

\* C6: in only-matching mode the output holds token lines only, a line prints
\* at most one token, exactly one when it matches, and that is the matched token.
C6_OnlyMatchingOneTokenPerLine ==
    outputOnlyMatching =>
        /\ \A i \in 1..Len(out) : out[i].kind = "token"
        /\ Len(printed) <= 1
        /\ EndOfTokens => (matched <=> Len(printed) = 1)
        /\ Len(printed) = 1 => Highlights(printed[1])

Strip(s) == SelectSeq(s, LAMBDA c : c \notin {"<", ">"})

\* the largest line number printed so far
LastPrinted ==
    LET nums == {out[i].num : i \in 1..Len(out)}
    IN  CHOOSE n \in nums \cup {0} : \A m \in nums : m <= n

\* C8: in full mode the step that handles a match on line i appends exactly one
\* group: one score line, the (at most contextBefore) lines before i that follow
\* the previous group, oldest first and verbatim, line i highlighted, the lines
\* i+1..min(n, i+contextAfter) verbatim, and one separator.
C8_FullModeGroup ==
    [][(EndOfTokens /\ matched /\ ~outputOnlyMatching /\ ~outputOnlyLines /\ pc' = "scan")
        => LET i == lineNumber
               from == IF LastPrinted + 1 > i - contextBefore
                       THEN LastPrinted + 1 ELSE i - contextBefore
               n == Len(input') - i
               grp == SubSeq(out', Len(out) + 1, Len(out'))
               hl == grp[2 + (i - from)]
           IN  /\ SubSeq(out', 1, Len(out)) = out
               /\ n \in 0..contextAfter
               /\ n < contextAfter => eof'
               /\ Len(grp) = 3 + (i - from) + n
               /\ grp[1].kind = "score"
               /\ \A j \in from..(i - 1) : grp[2 + (j - from)] = PrintLine(input[j], j)
               /\ hl.kind = "line" /\ hl.num = i
               /\ hl.text # input[i] /\ Strip(hl.text) = input[i]
               /\ \A j \in 1..n : grp[2 + (i - from) + j] = PrintLine(input'[i + j], i + j)
               /\ grp[Len(grp)] = Separator]_vars

\* C8 witness: contextBefore = 1, contextAfter = 1, a match on line 2 of three
\* lines: the output is the score, line 1, line 2 highlighted, line 3, the separator
C8_Witness ==
    /\ contextBefore = 1 /\ contextAfter = 1 /\ pc = "scan" /\ Len(input) = 3
    /\ Len(out) = 5
    /\ out[1].kind = "score"
    /\ out[2] = PrintLine(input[1], 1)
    /\ out[3].num = 2 /\ Strip(out[3].text) = input[2]
    /\ out[4] = PrintLine(input[3], 3)
    /\ out[5] = Separator

\* C9: a line read by the after-context loop is never handed to the segmenter,
\* is never in the context buffer, and is printed verbatim inside the group of
\* the match before it (never highlighted, never after a score of its own).
C9_TrailingLinesNotScanned ==
    /\ tokenized \cap trailing = {}
    /\ \A k \in 1..Len(contextLineNumbers) : contextLineNumbers[k] \notin trailing
    /\ \A i \in 1..Len(out) :
         (out[i].kind = "line" /\ out[i].num \in trailing)
             => /\ out[i].num \in 1..Len(input)
                /\ out[i].text = input[out[i].num]
                /\ i > 1 /\ out[i - 1].kind = "line"
    /\ Cardinality({i \in 1..Len(out) : out[i].kind = "score"})
           <= Cardinality(tokenized)

\* C9 witness: line 2 was read as trailing context although it holds the token
\* k, equal to a query, and the scan went on to line 3
C9_Witness ==
    /\ 2 \in trailing /\ 3 \in tokenized
    /\ input[2] = <<"q", " ", "k">>
    /\ <<"k">> \in DOMAIN queryVectors

\* C15: when a read of the input fails, the scan stops with the output written
\* so far kept, and the function hands the failure to its caller as its result.
C15_ReadErrorIsReturned ==
    [][(pc = "scan" /\ pc' = "done" /\ scanErr' # "nil")
           => (out' = out /\ Results = <<scanErr'>>)]_vars

\* the number of lines -A asks for after a match and -B asks for before it
\* (a positive -C sets both)
LinesAfterAsked  == IF flags.C > 0 THEN flags.C ELSE flags.A
LinesBeforeAsked == IF flags.C > 0 THEN flags.C ELSE flags.B

\* C16: the group printed for a match shows the lines after it that -A asks
\* for (fewer only when the input ends) and no more lines before it than -B
\* asks for, and -C N with N > 0 asks for N of both.
C16_ContextFlags ==
    [][(EndOfTokens /\ matched /\ pc' = "scan")
           => LET after == Len(input') - Len(input)
                  before == (Len(out') - Len(out)) - 3 - after
              IN  /\ after <= LinesAfterAsked
                  /\ after < LinesAfterAsked => eof'
                  /\ before <= LinesBeforeAsked]_vars

\* only-lines mode is in force (only-matching mode takes precedence over it)
OnlyLinesMode == outputOnlyLines /\ ~outputOnlyMatching

\* C19: in only-lines mode the handling of a matching line writes exactly one
\* output line, the highlighted line with its number, reads no further line, and
\* no other step writes output; in only-matching and only-lines modes the
\* context buffer is empty in every state.
C19_OnlyLinesOneLinePerMatch ==
    [][/\ OnlyLinesMode =>
            IF EndOfTokens /\ matched /\ pc' = "scan"
            THEN /\ out' = Append(out, out'[Len(out')])
                 /\ out'[Len(out')].kind = "line"
                 /\ out'[Len(out')].num = lineNumber
                 /\ out'[Len(out')].text # line
                 /\ Strip(out'[Len(out')].text) = line
                 /\ input' = input
            ELSE out' = out
       /\ (outputOnlyMatching \/ outputOnlyLines)
              => contextBuffer' = <<>> /\ contextLineNumbers' = <<>>]_vars

\* C19 witness: only-lines mode with contextBefore > 0: line 1 did not match and
\* was not kept, line 2 matched and the output is that one line
C19_Witness ==
    /\ OnlyLinesMode /\ contextBefore > 0
    /\ pc = "scan" /\ matched /\ lineNumber = 2
    /\ Len(out) = 1 /\ out[1].kind = "line" /\ out[1].num = 2
    /\ contextBuffer = <<>>

\* C20: the step that ends the scan writes nothing: in full mode the output is
\* empty or ends with the separator of the last match group, and no line held
\* in the context buffer at the end has been printed.
C20_NoTrailingFlush ==
    [][(pc = "scan" /\ pc' = "done")
           => /\ out' = out
              /\ (~outputOnlyMatching /\ ~outputOnlyLines)
                     => (out' = <<>> \/ out'[Len(out')] = Separator)
              /\ \A k \in 1..Len(contextLineNumbers') : \A i \in 1..Len(out') :
                     out'[i].kind = "line" => out'[i].num # contextLineNumbers'[k]]_vars

\* C20 witness: the scan is over in full mode after one match group, with a
\* later non-matching line still in the context buffer
C20_Witness ==
    /\ pc = "done" /\ ~outputOnlyMatching /\ ~outputOnlyLines
    /\ contextBuffer # <<>>
    /\ out # <<>> /\ out[Len(out)] = Separator

\* C21: a token that is not in the store is not passed to the similarity
\* computation (no key of the cache is ever such a token), changes neither the
\* match flag nor the highlight nor the scores of its line, and the token loop
\* goes on with the next token.
C21_AbsentTokenSkipped ==
    [][/\ (pc = "tokens" /\ tokens # <<>>
             /\ Normalize(ignoreCase, Head(tokens)) \notin DOMAIN Vectors)
          => /\ cache' = cache
             /\ matched' = matched
             /\ highlightedLine' = highlightedLine
             /\ similarityScore' = similarityScore
             /\ matchSimilarityScore' = matchSimilarityScore
             /\ pc' = "tokens" /\ tokens' = Tail(tokens)
       /\ DOMAIN cache' \subseteq DOMAIN Vectors]_vars

\* C21 witness: line 1, "K d" without case folding, holds no token of the store
\* and did not match; the scan went on and line 2 matched
C21_Witness ==
    /\ lineNumber = 2 /\ matched /\ ~ignoreCase
    /\ input[1] = <<"K", " ", "d">>
    /\ <<"k">> \in DOMAIN queryVectors

\* the indices of the output records that are printed lines
LineRecords == {i \in 1..Len(out) : out[i].kind = "line"}

\* C22: the line counter equals the number of lines read so far, trailing
\* context included, and every printed line carries the number of its position
\* in the input.
C22_LineNumbersArePositions ==
    /\ lineNumber = Len(input)
    /\ \A i \in LineRecords :
         /\ out[i].num \in 1..Len(input)
         /\ Strip(out[i].text) = input[out[i].num]

\* C22 witness: line 3 was read as trailing context of a match on line 2 and
\* printed with the number 3, after a line 1 with another text
C22_Witness ==
    /\ lineNumber = 3 /\ 3 \in trailing
    /\ input[3] # input[2] /\ input[3] # input[1]
    /\ \E i \in LineRecords : out[i].num = 3 /\ out[i].text = input[3]

\* full output mode is in force
FullMode == ~outputOnlyMatching /\ ~outputOnlyLines

\* C24: in full mode the numbers of the printed lines are strictly increasing
\* in output order, so no input line is written twice.
C24_EachLineAtMostOnce ==
    FullMode =>
        \A i, j \in LineRecords : i < j => out[i].num < out[j].num

\* C24 witness: two match groups have been printed, the second with a line of
\* context before its match
C24_Witness ==
    /\ FullMode /\ pc = "scan" /\ matched /\ lineNumber = 3
    /\ Cardinality({i \in 1..Len(out) : out[i] = Separator}) = 2
    /\ Cardinality(LineRecords) = 3

\* C25: in full mode the context buffer holds consecutive line numbers ending
\* at the line before the one being processed (at the last line read once it
\* has been handled), and two lines printed one after the other in a group
\* have consecutive numbers.
C25_ContextIsConsecutive ==
    FullMode =>
        /\ \A k \in 1..(Len(contextLineNumbers) - 1) :
               contextLineNumbers[k + 1] = contextLineNumbers[k] + 1
        /\ contextLineNumbers # <<>> =>
               contextLineNumbers[Len(contextLineNumbers)]
                   = IF pc = "tokens" THEN lineNumber - 1 ELSE lineNumber
        /\ \A i \in LineRecords :
               (i + 1) \in LineRecords => out[i + 1].num = out[i].num + 1

\* C25 witness: with contextBefore = 2 the buffer holds lines 1 and 2 while line
\* 3 is being processed
C25_Witness ==
    /\ FullMode /\ contextBefore = 2 /\ pc = "tokens" /\ lineNumber = 3
    /\ contextLineNumbers = <<1, 2>>

\* C26: what a token does to its line (match flag, highlighted line, reported
\* score, printed tokens) is the same for every order in which the range over
\* queryVectors can visit the queries.
C26_IterationOrderIndependent ==
    [][(pc = "tokens" /\ tokens # <<>> /\ tokens' = Tail(tokens))
           => \A ord \in Orders(DOMAIN queryVectors) :
                  LET st == QueryLoop(Locals, Head(tokens),
                                      Normalize(ignoreCase, Head(tokens)), ord)
                  IN  /\ st.matched = matched'
                      /\ st.highlightedLine = highlightedLine'
                      /\ st.matchSimilarityScore = matchSimilarityScore'
                      /\ st.out = out']_vars

\* C27: in full mode, when the token loop of a matching line is over, the score
\* about to be printed is 1.0 if the highlighted token equals a query after
\* normalization, and is otherwise the memoized score of that token, which is
\* above the threshold.
C27_ScoreOfHighlightedToken ==
    (EndOfTokens /\ matched /\ FullMode) =>
        \A t \in LineTokens :
            Highlights(t) =>
                IF Normalize(ignoreCase, t) \in NormalizedQueries
                THEN matchSimilarityScore = One
                ELSE /\ Normalize(ignoreCase, t) \in DOMAIN cache
                     /\ matchSimilarityScore = cache[Normalize(ignoreCase, t)]
                     /\ matchSimilarityScore > similarityThreshold

\* s occurs in hl at position i
OccursAt(hl, s, i) ==
    i >= 1 /\ i + Len(s) - 1 <= Len(hl) /\ SubSeq(hl, i, i + Len(s) - 1) = s

\* C23: when a word of the line is highlighted, removing the markers from the
\* highlighted line gives back the line, every marker pair encloses exactly
\* the word's text, and no occurrence of that text is left outside a pair.
C23_HighlightWrapsEveryOccurrence ==
    [][(pc = "highlight" /\ tokens # <<>> /\ IsLetter(Head(Head(tokens))))
           => LET token == Head(tokens)
                  hl    == highlightedLine'
              IN  /\ Strip(hl) = line
                  /\ \A i \in 1..Len(hl) :
                         hl[i] = "<" => OccursAt(hl, token \o <<">">>, i + 1)
                  /\ \A i \in 1..Len(hl) :
                         hl[i] = ">" => i > Len(token) /\ OccursAt(hl, <<"<">> \o token, i - Len(token) - 1)
                  /\ \A i \in 1..Len(hl) :
                         OccursAt(hl, token, i) => OccursAt(hl, ColorText(token), i - 1)]_vars

\* a word that also occurs inside another word is wrapped there too
C23_Witness ==
    /\ pc = "highlight"
    /\ line = <<"k", "k", " ", "k">>
    /\ highlightedLine = <<"<", "k", ">", "<", "k", ">", " ", "<", "k", ">">>

\* C28: every iteration of calculateSimilarity8bit on int8 vectors of dimension
\* up to MaxDim adds the product of the two components to each of the three
\* int32 sums exactly: no sum wraps around, the squared norms never decrease
\* and all three stay within i * 2^14 after i iterations.
C28_SumsDoNotOverflow ==
    [][(quantized'.i = quantized.i + 1)
           => LET i  == quantized'.i
                  v1 == quantized.vec1
                  v2 == quantized.vec2
              IN  /\ quantized'.dotProduct - quantized.dotProduct = v1[i] * v2[i]
                  /\ quantized'.norm1 - quantized.norm1 = v1[i] * v1[i]
                  /\ quantized'.norm2 - quantized.norm2 = v2[i] * v2[i]
                  /\ quantized'.norm1 \in 0..(i * 16384)
                  /\ quantized'.norm2 \in 0..(i * 16384)
                  /\ quantized'.dotProduct \in (-(i * 16384))..(i * 16384)]_vars

\* the worst case: every component of both vectors is -128, at the largest dimension
C28_Witness ==
    /\ quantized.done
    /\ quantized.i = MaxDim
    /\ \A j \in 1..MaxDim : quantized.vec1[j] = -128 /\ quantized.vec2[j] = -128
    /\ quantized.dotProduct = MaxDim * 16384
    /\ quantized.norm1 = MaxDim * 16384

\* the input positions of the words of a printed chunk
Positions(c) == {c.chunk[i].pos : i \in 1..Len(c.chunk)}

\* C29: no position of the input belongs to two of the chunks that
\* processTokenStream of part_002 has printed.
C29_PrintedChunksDoNotOverlap ==
    version = "part_002" =>
        \A i, j \in 1..Len(chunks) :
            i # j => Positions(chunks[i]) \cap Positions(chunks[j]) = {}

\* C30: when a word is read, the buffer with that word holds at most window
\* tokens, and if it then holds exactly window tokens the turn of the loop
\* ends with the oldest token, at least, removed.
C30_BufferBoundedAndSlides ==
    [][(scanned' = scanned + 1)
           => /\ Len(tokenBuffer) + 1 <= window
              /\ Len(tokenBuffer) + 1 = window =>
                     /\ Len(tokenBuffer') < window
                     /\ \A i \in 1..Len(tokenBuffer') :
                            tokenBuffer'[i].pos > scanned + 1 - window]_vars

-----------------------------------------------------------------------------
(* Claims about the loader *)

\* C10: once LoadVectorModel has returned, a path ending in .8int.bin was
\* given to the VecModel8bit loader, any other path ending in .bin to the
\* VecModel32bit loader, and every other path got the unsupported-format error
\* without the file being opened.
C10_FormatBySuffix ==
    loaded.done =>
        /\ HasSuffix(filename, Dot8IntBin) => loaded.loader = "VecModel8bit"
        /\ (HasSuffix(filename, DotBin) /\ ~HasSuffix(filename, Dot8IntBin))
               => loaded.loader = "VecModel32bit"
        /\ ~HasSuffix(filename, DotBin)
               => loaded.err = "unsupported file format" /\ ~loaded.opened

\* a load by the 32-bit loader (called directly or by LoadVectorModel) has returned
Loaded32bit == loaded.done /\ loaded.loader = "VecModel32bit" /\ file.exists

\* a load by the 8-bit loader has returned or panicked
Loaded8bit == loaded.done /\ loaded.loader = "VecModel8bit" /\ file.exists

\* C11 as stated: a well-formed Format A file with one extra byte of any value
\* appended after its last record makes VecModel32bit.LoadModel return an error.
C11_TrailingByteIsAnError ==
    Loaded32bit =>
        \A g \in WellFormedA, b \in TrailBytes :
            file.bytes = g \o <<b>> => loaded.err # "nil"

\* C11 amended: a well-formed Format A file with one extra byte appended makes
\* the load return an error, except when the last record is not followed by
\* its optional newline and the appended byte is that newline: then the file
\* is still exactly exhausted after the records and the load succeeds.
C11_TrailingByteUnlessOptionalNewline ==
    Loaded32bit =>
        \A rs \in RecordSeqsA \ {<<>>}, b \in TrailBytes :
            file.bytes = FileA(rs) \o <<b>> =>
                IF ~rs[Len(rs)][2] /\ b = Newline
                THEN loaded.err = "nil"
                ELSE loaded.err = "unexpected data at end of file"

\* C11 witness: the file is "1 1\n", the record of k ended by its newline, and
\* one more byte "k": the load returned the end-of-file error
C11_Witness ==
    /\ Loaded32bit
    /\ file.bytes = FileA(<< <<[word |-> WordK, vec |-> <<F1>>], TRUE>> >>) \o <<107>>
    /\ loaded.err = "unexpected data at end of file"
    /\ loaded.records = 1

\* the file starts with a header that is malformed or announces a non-positive
\* vocabCount or dim
BadHeaderA ==
    \E h \in MalformedHeadersA \cup NonPositiveHeadersA, rs \in ShortSeqsA :
        file.bytes = h \o BodyA(rs)

\* C12: on a Format A file whose header is malformed or has vocabCount <= 0 or
\* dim <= 0, VecModel32bit.LoadModel returns an error without reading a
\* record, and LoadVectorModel returns no store.
C12_BadHeaderIsAnError ==
    (Loaded32bit /\ BadHeaderA) =>
        /\ loaded.err # "nil"
        /\ loaded.model = "nil"
        /\ loaded.records = 0
        /\ loaded.Vectors = EmptyMap

\* C12 witness: LoadVectorModel on a .bin file with the header "0 1\n" followed
\* by a record returned the invalid-header error
C12_Witness ==
    /\ Loaded32bit /\ loaded.call = "LoadVectorModel"
    /\ file.bytes = HeaderA(0, 1) \o BodyA(<< <<[word |-> WordK, vec |-> <<F1>>], TRUE>> >>)
    /\ loaded.err = "invalid header"

\* C13: on a Format B file whose header has vocabCount <= 0 or dim <= 0, or
\* whose last vector is cut short, VecModel8bit.LoadModel returns an error: it
\* neither succeeds nor panics.
C13_QuantizedBadFileIsAnError ==
    (Loaded8bit
       /\ \/ \E n \in -1..MaxRecords, d \in -1..1, rs \in RecordSeqsB :
               file.bytes = HeaderB(n, d) \o BodyB(rs) /\ (n <= 0 \/ d <= 0)
          \/ \E g \in WellFormedB : file.bytes = SubSeq(g, 1, Len(g) - 1))
        => loaded.err # "nil" /\ ~loaded.panic

\* the store a record sequence should give: each word with the vector of its
\* last record
LastWins(recs) ==
    LET words == {recs[i].word : i \in 1..Len(recs)}
        last(w) == CHOOSE i \in 1..Len(recs) :
                       /\ recs[i].word = w
                       /\ \A j \in 1..Len(recs) : recs[j].word = w => j <= i
    IN  [w \in words |-> recs[last(w)].vec]

\* C18: a successful load of a well-formed file leaves a store with one entry
\* per distinct token of the file, holding the vector of the token's last
\* record in file order (both loaders).
C18_LastRecordWins ==
    (loaded.done /\ file.exists /\ loaded.err = "nil" /\ ~loaded.panic) =>
        /\ loaded.loader = "VecModel32bit" =>
             \A rs \in RecordSeqsA :
                 file.bytes = FileA(rs) =>
                     loaded.Vectors = LastWins([i \in 1..Len(rs) |-> rs[i][1]])
        /\ loaded.loader = "VecModel8bit" =>
             \A rs \in RecordSeqsB :
                 file.bytes = FileB(rs) => loaded.Vectors = LastWins(rs)

\* C18 witness: the 8-bit loader read k = <<5>> and then k = <<-5>>, and the
\* store holds the one entry k = <<-5>>
C18_Witness ==
    /\ Loaded8bit /\ loaded.err = "nil"
    /\ file.bytes = FileB(<<[word |-> WordK, vec |-> <<5>>], [word |-> WordK, vec |-> <<-5>>]>>)
    /\ loaded.Vectors = (WordK :> <<-5>>)

=============================================================================
